---- MODULE Spec2Model ----
(***************************************************************************)
(* Model of the scene processing pipeline of                               *)
(* src/lambda_function/lambda_function.py: lambda_handler and the stages   *)
(* it calls, run by several concurrent invocations against one S3 bucket   *)
(* (the statistics records and the rolling time-series log); and of the    *)
(* arithmetic of calculate_vegetation_indices and                          *)
(* generate_lightweight_outputs on the pixels of a raster.                 *)
(***************************************************************************)
EXTENDS Integers, Sequences, FiniteSets, TLC

\* ------------------------------------------------------------------ bounds
\* The longest list of candidate scenes the catalog returns.
MaxScenes == 2
\* The most pixels of an index raster.
MaxPixels == 4
\* The most invocations started one after the other.
MaxRuns == 21

\* ------------------------------------------------------- program constants
LogCap == 20
DefaultCloud == 100
\* 0.3 in thousandths: a vegetated pixel (line 368), the health label (line 374).
VegPixelThreshold == 300
HealthThreshold == 300
\* reflectance = raw / 10000.0 (lines 297-300).
ReflectanceScale == 10000

\* Two invocations that may overlap (a scheduled run and a manual one).
Inv == {1, 2}

required_bands == <<"red", "green", "blue", "nir">>
AllBands == {required_bands[k] : k \in 1..Len(required_bands)}

\* ------------------------------------------------------------------ pixels
\* A pixel of a raster: NaN, or a value v. A band holds raw counts
\* (reflectance times 10000), an index raster given to
\* generate_lightweight_outputs holds thousandths.
NaN == [nan |-> TRUE, v |-> 0]
Val(x) == [nan |-> FALSE, v |-> x]

\* ------------------------------------------------------------------ inputs
\* Scene descriptors the catalog can return (all below the 20% cloud ceiling
\* of the query). ndvi is the NDVI raster the clipped bands of the scene
\* yield, in thousandths: the mean of S1 is 0.475, that of S2 exactly 0.3
\* with two pixels of four above 0.3; S3 has no nir asset.
S1 == [id |-> "S1", date |-> 2, cloud |-> 5, assets |-> AllBands,
       ndvi |-> <<Val(667), Val(500), Val(400), Val(333)>>]
S2 == [id |-> "S2", date |-> 1, cloud |-> 12, assets |-> AllBands,
       ndvi |-> <<Val(200), Val(400), Val(350), Val(250)>>]
S3 == [id |-> "S3", date |-> 3, cloud |-> 5, assets |-> AllBands \ {"nir"},
       ndvi |-> <<>>]
Scenes == {S1, S2, S3}
NoScene == [id |-> "", date |-> 0, cloud |-> 0, assets |-> {}, ndvi |-> <<>>]

\* The index rasters generate_lightweight_outputs is analysed on: up to
\* MaxPixels pixels, each NaN or one of these values (thousandths).
IndexValues == {-500, 200, 300, 400}
IndexPixels == {NaN} \cup {Val(x) : x \in IndexValues}
IndexRasters == UNION {[1..n -> IndexPixels] : n \in 0..MaxPixels}

\* The raw counts a band of a pixel is analysed on: nodata, the ends of the
\* valid range, a value inside it and one above it.
RawValues == {0, 1, 2000, ReflectanceScale, ReflectanceScale + 1}
BandPixels == [AllBands -> RawValues]

\* What search.items() can yield: any list of distinct scenes, in any order.
CatalogResults ==
  UNION { { s \in [1..n -> Scenes] : \A a, b \in 1..n : a # b => s[a] # s[b] }
          : n \in 0..MaxScenes }

\* event.get('scene_id'): SceneIdAbsent stands for a key that is absent (the
\* get returns None), SceneIdEmpty for a key that is present with the empty
\* string, "S1" for a scene identifier.
SceneIdAbsent == "none"
SceneIdEmpty == "empty"
\* dates: start_date and end_date are given. They are read after the test
\* mode return and only passed to the catalog search, whose result is any list
\* of scenes whatever the range: they are told apart for test mode events.
Events ==
  [test_mode : {FALSE}, scene_id : {SceneIdAbsent, SceneIdEmpty, "S1"},
   dates : {FALSE}]
    \cup [test_mode : {TRUE}, scene_id : {SceneIdAbsent, SceneIdEmpty, "S1"},
          dates : BOOLEAN]
NoEvent == [test_mode |-> FALSE, scene_id |-> SceneIdAbsent, dates |-> FALSE]

\* ----------------------------------------------------------------- helpers
\* Faulty variant of the test of scene_id: never taken.
Truthy_Never(scene_id) == FALSE

\* Python truthiness of event.get('scene_id') (line 81: `if scene_id:`).
Truthy(scene_id) == scene_id # SceneIdAbsent /\ scene_id # SceneIdEmpty

\* x.properties.get('eo:cloud_cover', 100), the key of min() at line 138.
CloudKey(x) == IF x = NoScene THEN DefaultCloud ELSE x.cloud

\* Faulty variant of min(): a later element of equal key replaces the best so far.
RECURSIVE MinScan_LastTie(_, _, _)
MinScan_LastTie(items, k, best) ==
  IF k > Len(items) THEN best
  ELSE IF CloudKey(items[k]) <= CloudKey(items[best])
       THEN MinScan_LastTie(items, k + 1, k)
       ELSE MinScan_LastTie(items, k + 1, best)

\* Python's min(items, key=...): the first element whose key is smallest.
RECURSIVE MinScan(_, _, _)
MinScan(items, k, best) ==
  IF k > Len(items) THEN best
  ELSE IF CloudKey(items[k]) < CloudKey(items[best])
       THEN MinScan(items, k + 1, k)
       ELSE MinScan(items, k + 1, best)

SelectBest(items) == items[MinScan(items, 2, 1)]

\* time_series['scenes'][-20:]
LastN(s, n) == IF Len(s) <= n THEN s ELSE SubSeq(s, Len(s) - n + 1, Len(s))

\* Faulty variants of the cut: no cut at all; the first 20 kept, not the last.
Truncate_NoCut(scenes) == scenes
Truncate_KeepFirst(scenes) ==
  IF Len(scenes) <= LogCap THEN scenes ELSE SubSeq(scenes, 1, LogCap)

Truncate(scenes) == LastN(scenes, LogCap)

\* ------------------------------------------ calculate_vegetation_indices
\* Faulty variant of the mask: a reflectance of 0 is kept.
MaskBand_KeepZero(raw) ==
  IF raw < 0 \/ raw > ReflectanceScale THEN NaN ELSE Val(raw)

\* red = raw / 10000.0, then np.where((red <= 0) | (red > 1), np.nan, red)
\* (lines 297-306); the value is kept in raw counts.
MaskBand(raw) ==
  IF raw <= 0 \/ raw > ReflectanceScale THEN NaN ELSE Val(raw)

\* Floating point arithmetic on pixels: an operation on NaN gives NaN, a
\* comparison with NaN is false.
Plus(a, b) == IF a.nan \/ b.nan THEN NaN ELSE Val(a.v + b.v)
Minus(a, b) == IF a.nan \/ b.nan THEN NaN ELSE Val(a.v - b.v)
Times(k, a) == IF a.nan THEN NaN ELSE Val(k * a.v)
Positive(a) == ~a.nan /\ a.v > 0

\* A pixel of an index: NaN, or the exact quotient num/den.
NaNIndex == [nan |-> TRUE, num |-> 0, den |-> 1]
Quotient(a, b) ==
  IF a.nan \/ b.nan THEN NaNIndex ELSE [nan |-> FALSE, num |-> a.v, den |-> b.v]

\* Faulty variant of NDVI: the difference is divided by nir alone.
NDVI_OverNir(red, nir) ==
  IF Positive(Plus(nir, red))
  THEN Quotient(Minus(nir, red), nir) ELSE NaNIndex

\* np.where((nir + red) > 0, (nir - red) / (nir + red), np.nan), lines 309-313.
NDVI(red, nir) ==
  IF Positive(Plus(nir, red))
  THEN Quotient(Minus(nir, red), Plus(nir, red)) ELSE NaNIndex

\* The denominator of EVI, nir + 6 * red - 7.5 * blue + 1 (line 316), twice
\* over and in raw counts: 2 * nir + 12 * red - 15 * blue + 2 * 10000.
EviDenominator(red, nir, blue) ==
  Plus(Minus(Plus(Times(2, nir), Times(12, red)), Times(15, blue)),
       Val(2 * ReflectanceScale))

\* np.where(den > 0, 2.5 * ((nir - red) / den), np.nan), lines 315-319.
EVI(red, nir, blue) ==
  IF Positive(EviDenominator(red, nir, blue))
  THEN Quotient(Times(5, Minus(nir, red)), EviDenominator(red, nir, blue))
  ELSE NaNIndex

\* np.where((green + nir) > 0, (green - nir) / (green + nir), np.nan), lines
\* 321-325.
NDWI(green, nir) ==
  IF Positive(Plus(green, nir))
  THEN Quotient(Minus(green, nir), Plus(green, nir)) ELSE NaNIndex

\* calculate_vegetation_indices on one pixel of the four clipped bands
\* (lines 296-325).
VegetationIndices(raw) ==
  LET red == MaskBand(raw["red"])
      nir == MaskBand(raw["nir"])
      green == MaskBand(raw["green"])
      blue == MaskBand(raw["blue"])
  IN [NDVI |-> NDVI(red, nir), EVI |-> EVI(red, nir, blue),
      NDWI |-> NDWI(green, nir)]
NoBands == [b \in AllBands |-> 0]
NoIndices == [NDVI |-> NaNIndex, EVI |-> NaNIndex, NDWI |-> NaNIndex]

\* ------------------------------------------- generate_lightweight_outputs
\* valid_data = index_data[~np.isnan(index_data)] (line 356).
ValidData(index_data) == SelectSeq(index_data, LAMBDA p : ~p.nan)

RECURSIVE SumSeq(_)
SumSeq(data) == IF Len(data) = 0 THEN 0 ELSE Head(data).v + SumSeq(Tail(data))

RECURSIVE Gcd(_, _)
Gcd(a, b) == IF b = 0 THEN a ELSE Gcd(b, a % b)

RECURSIVE LcmUpTo(_)
LcmUpTo(n) ==
  IF n <= 1 THEN 1 ELSE LET l == LcmUpTo(n - 1) IN (l * n) \div Gcd(l, n)

\* A mean is kept in units of 1/MeanScale of a thousandth, in which the mean
\* of up to MaxPixels values in thousandths is a whole number.
MeanScale == LcmUpTo(MaxPixels)

\* float(valid_data.mean()) (line 360).
Mean(valid_data) == (SumSeq(valid_data) * MeanScale) \div Len(valid_data)

\* int(np.sum(valid_data > 0.3)) (line 368).
VegetationPixels(valid_data) ==
  Len(SelectSeq(valid_data, LAMBDA p : p.v > VegPixelThreshold))

\* results['statistics']['NDVI'] (lines 356-369): the entry exists only if
\* some pixel is valid. count = 0 stands for the entry that is absent; its
\* other fields are then never read.
NoStats == [count |-> 0, mean |-> 0, veg |-> 0]
Statistics(index_data) ==
  LET valid_data == ValidData(index_data)
  IN IF Len(valid_data) > 0
     THEN [count |-> Len(valid_data), mean |-> Mean(valid_data),
           veg |-> VegetationPixels(valid_data)]
     ELSE NoStats

\* ndvi_stats.get('mean', 0), ndvi_stats.get('vegetation_pixels', 0) and
\* ndvi_stats.get('count', 1) of ndvi_stats = statistics.get('NDVI', {}).
NdviMean(ndvi) == IF ndvi.count > 0 THEN ndvi.mean ELSE 0
NdviVegetationPixels(ndvi) == IF ndvi.count > 0 THEN ndvi.veg ELSE 0
NdviCount(ndvi) == IF ndvi.count > 0 THEN ndvi.count ELSE 1

\* Faulty variant of the label: a mean of exactly 0.3 is Good.
Health_AtLeast(ndvi) ==
  IF NdviMean(ndvi) >= HealthThreshold * MeanScale THEN "Good" ELSE "Poor"

\* 'Good' if ndvi_stats.get('mean', 0) > 0.3 else 'Poor' (line 374).
Health(ndvi) ==
  IF NdviMean(ndvi) > HealthThreshold * MeanScale THEN "Good" ELSE "Poor"

\* Faulty variant of the format: the digits after the first decimal are cut.
RoundHalfEven_Cut(num, den) == num \div den

\* The quotient num/den rounded to a whole number, a tie to the even one:
\* what the format :.1f does to a value in tenths.
RoundHalfEven(num, den) ==
  LET q == num \div den
      r == num % den
  IN IF 2 * r < den THEN q
     ELSE IF 2 * r > den THEN q + 1
     ELSE IF q % 2 = 0 THEN q ELSE q + 1

\* vegetation_coverage (line 375), the text f"{(veg / count) * 100:.1f}%":
\* the number of tenths of a percent it shows.
Coverage(ndvi) ==
  RoundHalfEven(NdviVegetationPixels(ndvi) * 1000, NdviCount(ndvi))

\* generate_lightweight_outputs(indices, scene_id, scene_date), lines
\* 344-380: the result record.
LightweightOutputs(index_data, scene_id, scene_date) ==
  LET ndvi == Statistics(index_data)
  IN [scene_id |-> scene_id, scene_date |-> scene_date,
      has_ndvi |-> ndvi.count > 0, ndvi |-> ndvi,
      vegetation_health |-> Health(ndvi),
      vegetation_coverage |-> Coverage(ndvi)]

\* The result record of a scene.
Results(scene) == LightweightOutputs(scene.ndvi, scene.id, scene.date)
NoResults == Results(NoScene)

\* The entry update_time_series_log appends (lines 420-425).
LogEntry(results) ==
  [scene_id |-> results.scene_id, date |-> results.scene_date,
   ndvi_mean |-> NdviMean(results.ndvi),
   vegetation_health |-> results.vegetation_health]

\* stats_key = results/statistics/{scene_date}/{scene_id}_stats.json
StatsKey(results) ==
  <<"results/statistics/", results.scene_date, results.scene_id>>

\* f"s3://{S3_BUCKET}/{stats_key}" (line 398).
S3_BUCKET == "bucket"
Location(key) == [scheme |-> "s3://", bucket |-> S3_BUCKET, key |-> key]

\* A log left by earlier runs: n entries of older scenes, oldest first.
OldEntry(k, n) ==
  [scene_id |-> "old", date |-> k - n, ndvi_mean |-> 400 * MeanScale,
   vegetation_health |-> "Good"]
OldLog(n) == [k \in 1..n |-> OldEntry(k, n)]
InitLogLens == {0, 1, LogCap - 1, LogCap}

NoResponse == [statusCode |-> 0, error |-> "", test_passed |-> FALSE,
               scene_id |-> ""]

\* The payloads lambda_handler returns (lines 61-73, 88-95, 101-107).
TestPayload == [statusCode |-> 200, error |-> "", test_passed |-> TRUE,
                scene_id |-> ""]
SuccessPayload(result) == [statusCode |-> 200, error |-> "",
                           test_passed |-> FALSE, scene_id |-> result.scene_id]
\* Faulty variant of the except clause: the failure is reported as a success.
ErrorPayload_Status200(e) == [statusCode |-> 200, error |-> e,
                              test_passed |-> FALSE, scene_id |-> ""]

ErrorPayload(e) == [statusCode |-> 500, error |-> e, test_passed |-> FALSE,
                    scene_id |-> ""]

\* str(e) of the failures the stages raise.
NotImplementedMsg == "Direct scene ID processing not implemented"
\* Faulty variant: without the test of line 134, min() of the empty list
\* raises this instead.
NoScenesMsg_MinOfEmpty == "min() arg is an empty sequence"

NoScenesMsg == "No suitable scenes found"
SearchFailedMsg == "catalog search failed"
DownloadFailedMsg == "band transfer failed"
ClipFailedMsg == "clip failed"
KeyErrorMsg == "KeyError: band missing"
IndexFailedMsg == "index computation failed"
SummarizeFailedMsg == "summarization failed"
PutStatsFailedMsg == "put_object of the statistics record failed"
PutLogFailedMsg == "put_object of the log failed"

\* The frame of an invocation that is not running: no locals.
Idle ==
  [pc |-> "idle", items |-> <<>>, best_scene |-> NoScene, band |-> 1,
   downloaded_bands |-> <<>>, clipped_bands |-> <<>>, results |-> NoResults,
   s3_paths |-> <<>>, time_series |-> <<>>]

VARIABLES
  frame,         \* per invocation: position and locals of the handler
  event,         \* per invocation: the event it was invoked with
  temp_dir,      \* per invocation: its scratch directory exists
  response,      \* per invocation: the payload lambda_handler returned
  calls,         \* per invocation: the external calls made, in order
  s3_stats,      \* bucket: statistics records by key
  s3_log,        \* bucket: time_series/vegetation_log.json
  log_version,   \* number of writes of the log so far
  read_version,  \* per invocation: log_version at its get_object
  write_version, \* per invocation: log_version after its put_object
  log_read,      \* per invocation: how its get_object of the log ended
  found,         \* per invocation: whether its search returned any scene
  raised,        \* per invocation: str(e) of the failure that reached the handler
  bands,         \* one pixel of the four clipped bands, in raw counts
  indices,       \* the indices calculate_vegetation_indices gives at that pixel
  index_data,    \* the NDVI raster given to generate_lightweight_outputs
  outputs,       \* the result record generate_lightweight_outputs returns
  computed,      \* which of the two functions has returned
  history        \* since the start: the log as it was, the invocations started,
                 \* those that returned with success, whether a read of the
                 \* log failed

vars == <<frame, event, temp_dir, response, calls, s3_stats, s3_log,
          log_version, read_version, write_version, log_read, found, raised,
          bands, indices, index_data, outputs, computed, history>>

\* The variables of the analysis of the two functions on pixels; the
\* pipeline carries the raster of a scene in its frame.
pixels == <<bands, indices, index_data, outputs, computed>>
NoPixels ==
  /\ bands = NoBands
  /\ indices = NoIndices
  /\ index_data = <<>>
  /\ outputs = NoResults
  /\ computed = "none"

Init ==
  /\ NoPixels
  /\ frame = [i \in Inv |-> Idle]
  /\ event = [i \in Inv |-> NoEvent]
  /\ temp_dir = [i \in Inv |-> FALSE]
  /\ response = [i \in Inv |-> NoResponse]
  /\ calls = [i \in Inv |-> <<>>]
  /\ s3_stats = <<>>
  /\ \/ s3_log = [exists |-> FALSE, scenes |-> <<>>]
     \/ \E n \in InitLogLens : s3_log = [exists |-> TRUE, scenes |-> OldLog(n)]
  /\ log_version = 0
  /\ read_version = [i \in Inv |-> 0]
  /\ write_version = [i \in Inv |-> 0]
  /\ log_read = [i \in Inv |-> "not read"]
  /\ found = [i \in Inv |-> "not searched"]
  /\ raised = [i \in Inv |-> ""]
  /\ history = [log0 |-> s3_log.scenes, started |-> 0, completed |-> 0,
                read_failed |-> FALSE]

s3 == <<s3_stats, s3_log, log_version, read_version, write_version, log_read>>

Called(i, what, arg) == calls' = [calls EXCEPT ![i] = Append(@, <<what, arg>>)]

\* Faulty variant of the failure path: the scratch directory is removed by
\* hand at the end of process_scene_data only, a failure leaves it behind.
Raise_KeepDir(i, e) ==
  /\ frame' = [frame EXCEPT ![i] = [Idle EXCEPT !.pc = "returned"]]
  /\ UNCHANGED temp_dir
  /\ raised' = [raised EXCEPT ![i] = e]
  /\ response' = [response EXCEPT ![i] = ErrorPayload(e)]

\* A failure propagates to the except clause of lambda_handler (lines 97-107):
\* the with block of process_scene_data removes the scratch directory on the
\* way, and the handler returns the error payload.
Raise(i, e) ==
  /\ frame' = [frame EXCEPT ![i] = [Idle EXCEPT !.pc = "returned"]]
  /\ temp_dir' = [temp_dir EXCEPT ![i] = FALSE]
  /\ raised' = [raised EXCEPT ![i] = e]
  /\ response' = [response EXCEPT ![i] = ErrorPayload(e)]

\* The stage goes on: only the frame changes.
Goto(i, f) ==
  /\ frame' = [frame EXCEPT ![i] = f]
  /\ UNCHANGED <<temp_dir, raised, response>>

\* An invocation starts: lambda_handler(event, context).
Invoke(i) ==
  /\ frame[i].pc = "idle"
  /\ \E e \in Events : event' = [event EXCEPT ![i] = e]
  /\ frame' = [frame EXCEPT ![i].pc = "handler"]
  /\ history' = [history EXCEPT !.started = @ + 1]
  /\ UNCHANGED <<pixels, temp_dir, response, calls, raised, found, s3>>

\* Faulty variant of lambda_handler: scene_id is looked at before test_mode.
lambda_handler_SceneIdFirst(i) ==
  /\ frame[i].pc = "handler"
  /\ IF Truthy(event[i].scene_id)
     THEN Raise(i, NotImplementedMsg)
     ELSE IF event[i].test_mode
          THEN /\ frame' = [frame EXCEPT ![i] = [Idle EXCEPT !.pc = "returned"]]
               /\ response' = [response EXCEPT ![i] = TestPayload]
               /\ UNCHANGED <<temp_dir, raised>>
          ELSE Goto(i, [frame[i] EXCEPT !.pc = "search"])
  /\ UNCHANGED <<pixels, history, event, calls, found, s3>>

\* lambda_handler, lines 59-86: the test mode return, then the dispatch on
\* scene_id; process_single_scene raises NotImplementedError.
lambda_handler(i) ==
  /\ frame[i].pc = "handler"
  /\ IF event[i].test_mode
     THEN /\ frame' = [frame EXCEPT ![i] = [Idle EXCEPT !.pc = "returned"]]
          /\ response' = [response EXCEPT ![i] = TestPayload]
          /\ UNCHANGED <<temp_dir, raised>>
     ELSE IF Truthy(event[i].scene_id)
          THEN Raise(i, NotImplementedMsg)
          ELSE Goto(i, [frame[i] EXCEPT !.pc = "search"])
  /\ UNCHANGED <<pixels, history, event, calls, found, s3>>

\* find_and_process_scene, lines 115-144: the catalog search, the empty
\* result, the selection of the scene, the scratch directory of
\* process_scene_data (line 155).
Search(i, catalog) ==
  /\ frame[i].pc = "search"
  /\ Called(i, "search", "")
  /\ \/ /\ Raise(i, SearchFailedMsg)
        /\ UNCHANGED found
     \/ \E items \in catalog :
          /\ found' = [found EXCEPT ![i] =
                         IF Len(items) = 0 THEN "no scenes" ELSE "scenes"]
          /\ IF items = <<>>
             THEN Raise(i, NoScenesMsg)
             ELSE Goto(i, [frame[i] EXCEPT !.pc = "selected", !.items = items,
                                          !.best_scene = SelectBest(items)])
  /\ UNCHANGED <<pixels, history, event, s3>>

find_and_process_scene(i) == Search(i, CatalogResults)

\* The search of a catalog that holds one scene for the range asked.
SameSceneResults == {<<>>, <<S1>>}
find_same_scene(i) == Search(i, SameSceneResults)

\* Faulty variant of process_scene_data: the bands are clipped without having
\* been transferred.
process_scene_data_SkipDownload(i) ==
  /\ frame[i].pc = "selected"
  /\ frame' = [frame EXCEPT ![i] = [@ EXCEPT !.pc = "clip", !.items = <<>>,
                                              !.downloaded_bands = required_bands]]
  /\ temp_dir' = [temp_dir EXCEPT ![i] = TRUE]
  /\ UNCHANGED <<pixels, history, event, response, calls, raised, found, s3>>

\* process_scene_data, lines 146-156: the scratch directory is created. The
\* locals of find_and_process_scene are not read again.
process_scene_data(i) ==
  /\ frame[i].pc = "selected"
  /\ frame' = [frame EXCEPT ![i] = [@ EXCEPT !.pc = "download", !.items = <<>>]]
  /\ temp_dir' = [temp_dir EXCEPT ![i] = TRUE]
  /\ UNCHANGED <<pixels, history, event, response, calls, raised, found, s3>>

\* Faulty variant of the transfer: a band whose transfer fails is left out
\* and the loop goes on with the next band.
download_bands_to_tmp_SkipFailed(i) ==
  LET f == frame[i]
      b == required_bands[f.band]
      last == f.band = Len(required_bands)
      next(got) == IF ~last THEN [f EXCEPT !.band = @ + 1, !.downloaded_bands = got]
                   ELSE IF got = <<>>
                        THEN [f EXCEPT !.pc = "index", !.band = 1, !.downloaded_bands = got]
                        ELSE [f EXCEPT !.pc = "clip", !.band = 1, !.downloaded_bands = got]
  IN /\ f.pc = "download"
     /\ IF b \in f.best_scene.assets
        THEN /\ Called(i, "download", b)
             /\ \/ Goto(i, next(f.downloaded_bands))
                \/ Goto(i, next(Append(f.downloaded_bands, b)))
        ELSE /\ Goto(i, next(f.downloaded_bands))
             /\ UNCHANGED calls
     /\ UNCHANGED <<pixels, history, event, found, s3>>

\* Faulty variant of download_bands_to_tmp: a required band that the scene
\* does not offer ends the invocation.
download_bands_to_tmp_Strict(i) ==
  LET f == frame[i]
      b == required_bands[f.band]
      last == f.band = Len(required_bands)
      next(got) == IF ~last THEN [f EXCEPT !.band = @ + 1, !.downloaded_bands = got]
                   ELSE IF got = <<>>
                        THEN [f EXCEPT !.pc = "index", !.band = 1, !.downloaded_bands = got]
                        ELSE [f EXCEPT !.pc = "clip", !.band = 1, !.downloaded_bands = got]
  IN /\ f.pc = "download"
     /\ IF b \in f.best_scene.assets
        THEN /\ Called(i, "download", b)
             /\ \/ Raise(i, DownloadFailedMsg)
                \/ Goto(i, next(Append(f.downloaded_bands, b)))
        ELSE /\ Raise(i, KeyErrorMsg)
             /\ UNCHANGED calls
     /\ UNCHANGED <<pixels, history, event, found, s3>>

\* download_bands_to_tmp, lines 194-213: one iteration of the loop over
\* required_bands.
download_bands_to_tmp(i) ==
  LET f == frame[i]
      b == required_bands[f.band]
      last == f.band = Len(required_bands)
      next(got) == IF ~last THEN [f EXCEPT !.band = @ + 1, !.downloaded_bands = got]
                   ELSE IF got = <<>>
                        THEN [f EXCEPT !.pc = "index", !.band = 1, !.downloaded_bands = got]
                        ELSE [f EXCEPT !.pc = "clip", !.band = 1, !.downloaded_bands = got]
  IN /\ f.pc = "download"
     /\ IF b \in f.best_scene.assets
        THEN /\ Called(i, "download", b)
             /\ \/ Raise(i, DownloadFailedMsg)
                \/ Goto(i, next(Append(f.downloaded_bands, b)))
        ELSE /\ Goto(i, next(f.downloaded_bands))
             /\ UNCHANGED calls
     /\ UNCHANGED <<pixels, history, event, found, s3>>

\* clip_bands_to_aoi, lines 247-278: one iteration of the loop over the
\* downloaded bands.
clip_bands_to_aoi(i) ==
  LET f == frame[i]
      b == f.downloaded_bands[f.band]
      last == f.band = Len(f.downloaded_bands)
  IN /\ f.pc = "clip"
     /\ Called(i, "clip", b)
     /\ \/ Raise(i, ClipFailedMsg)
        \/ Goto(i, [f EXCEPT !.clipped_bands = Append(@, b),
                             !.band = IF last THEN 1 ELSE @ + 1,
                             !.pc = IF last THEN "index" ELSE "clip"])
     /\ UNCHANGED <<pixels, history, event, found, s3>>

\* Faulty variant of the index stage: the record of the scene is put before the
\* indices are computed, so a failure leaves it behind.
calculate_vegetation_indices_PutFirst(i) ==
  LET f == frame[i]
      r == Results(f.best_scene)
  IN /\ f.pc = "index"
     /\ calls' = [calls EXCEPT ![i] = @ \o <<<<"put_object", "stats">>,
                                              <<"index", "">>>>]
     /\ s3_stats' = (StatsKey(r) :> r) @@ s3_stats
     /\ Raise(i, IndexFailedMsg)
     /\ UNCHANGED <<pixels, history, event, found, s3_log, log_version, read_version,
                    write_version, log_read>>

\* Faulty variant of the index stage: a band that was not clipped is done
\* without, the indices are computed from the bands there are.
calculate_vegetation_indices_AnyBands(i) ==
  /\ frame[i].pc = "index"
  /\ Called(i, "index", "")
  /\ \/ Raise(i, IndexFailedMsg)
     \/ Goto(i, [frame[i] EXCEPT !.pc = "summarize"])
  /\ UNCHANGED <<pixels, history, event, found, s3>>

\* calculate_vegetation_indices, lines 280-342: clipped_bands[...] of a band
\* that was not clipped raises KeyError.
calculate_vegetation_indices(i) ==
  LET f == frame[i]
      have == {f.clipped_bands[k] : k \in 1..Len(f.clipped_bands)}
  IN /\ f.pc = "index"
     /\ Called(i, "index", "")
     /\ IF AllBands \subseteq have
        THEN \/ Raise(i, IndexFailedMsg)
             \/ Goto(i, [f EXCEPT !.pc = "summarize"])
        ELSE Raise(i, KeyErrorMsg)
     /\ UNCHANGED <<pixels, history, event, found, s3>>

\* Faulty variant of the summary: the label is smoothed by the log, a scene
\* is Good as soon as the stored log holds an entry.
generate_lightweight_outputs_Smoothed(i) ==
  LET r == Results(frame[i].best_scene)
  IN /\ frame[i].pc = "summarize"
     /\ Called(i, "summarize", "")
     /\ \/ Raise(i, SummarizeFailedMsg)
        \/ Goto(i, [frame[i] EXCEPT
                      !.pc = "put_stats",
                      !.results = IF Len(s3_log.scenes) > 0
                                  THEN [r EXCEPT !.vegetation_health = "Good"]
                                  ELSE r])
     /\ UNCHANGED <<pixels, history, event, found, s3>>

\* generate_lightweight_outputs, lines 344-380.
generate_lightweight_outputs(i) ==
  /\ frame[i].pc = "summarize"
  /\ Called(i, "summarize", "")
  /\ \/ Raise(i, SummarizeFailedMsg)
     \/ Goto(i, [frame[i] EXCEPT !.pc = "put_stats",
                                 !.results = Results(frame[i].best_scene)])
  /\ UNCHANGED <<pixels, history, event, found, s3>>

\* Faulty variant of the upload: the statistics record is not written.
upload_results_to_s3_SkipStats(i) ==
  /\ frame[i].pc = "put_stats"
  /\ Called(i, "put_object", "stats")
  /\ Goto(i, [frame[i] EXCEPT !.pc = "get_log"])
  /\ UNCHANGED <<pixels, history, event, found, s3>>

\* Faulty variant of upload_results_to_s3: the location of the statistics
\* record is not added to the list that is returned.
upload_results_to_s3_NoPaths(i) ==
  LET f == frame[i]
  IN /\ f.pc = "put_stats"
     /\ Called(i, "put_object", "stats")
     /\ \/ /\ Raise(i, PutStatsFailedMsg)
           /\ UNCHANGED s3_stats
        \/ /\ s3_stats' = (StatsKey(f.results) :> f.results) @@ s3_stats
           /\ Goto(i, [f EXCEPT !.pc = "get_log"])
     /\ UNCHANGED <<pixels, history, event, found, s3_log, log_version, read_version,
                    write_version, log_read>>

\* upload_results_to_s3, lines 387-398: the statistics record is put under
\* its key (an existing object of that key is overwritten).
upload_results_to_s3(i) ==
  LET f == frame[i]
  IN /\ f.pc = "put_stats"
     /\ Called(i, "put_object", "stats")
     /\ \/ /\ Raise(i, PutStatsFailedMsg)
           /\ UNCHANGED s3_stats
        \/ /\ s3_stats' = (StatsKey(f.results) :> f.results) @@ s3_stats
           /\ Goto(i, [f EXCEPT !.pc = "get_log",
                                !.s3_paths = Append(@, Location(StatsKey(f.results)))])
     /\ UNCHANGED <<pixels, history, event, found, s3_log, log_version, read_version,
                    write_version, log_read>>

\* Faulty variant of the new content of the log: an entry of the same scene
\* is replaced, the log holding one entry per scene.
NewLog_OnePerScene(scenes, results) ==
  Truncate(Append(SelectSeq(scenes, LAMBDA e : e.scene_id # results.scene_id),
                  LogEntry(results)))

\* Faulty variant of the new content of the log: the list is cut before the
\* entry is appended.
NewLog_CutFirst(scenes, results) == Append(Truncate(scenes), LogEntry(results))

\* Faulty variant of the new content of the log: the entry is put at its
\* place by date, the log being kept sorted by date.
NewLog_SortedByDate(scenes, results) ==
  LET e == LogEntry(results)
      k == Cardinality({j \in 1..Len(scenes) : scenes[j].date <= e.date})
  IN Truncate(SubSeq(scenes, 1, k) \o <<e>> \o SubSeq(scenes, k + 1, Len(scenes)))

\* The new content of the log: the entry appended to what was read, cut to
\* the last 20 (lines 419-428).
NewLog(scenes, results) == Truncate(Append(scenes, LogEntry(results)))

\* Faulty variant of the read: the read is not guarded, a log that is absent
\* ends the invocation.
update_time_series_log_read_Unguarded(i) ==
  LET f == frame[i]
  IN /\ f.pc = "get_log"
     /\ Called(i, "get_object", "log")
     /\ IF s3_log.exists
        THEN /\ log_read' = [log_read EXCEPT ![i] = "ok"]
             /\ Goto(i, [f EXCEPT !.pc = "put_log",
                                  !.time_series = NewLog(s3_log.scenes, f.results)])
        ELSE /\ log_read' = [log_read EXCEPT ![i] = "absent"]
             /\ Raise(i, "NoSuchKey")
     /\ read_version' = [read_version EXCEPT ![i] = log_version]
     /\ UNCHANGED <<pixels, history, event, found, s3_stats, s3_log, log_version,
                    write_version>>

\* Faulty variant of the read: only the absence of the log is caught, any
\* other failure of the read ends the invocation.
update_time_series_log_read_OnlyAbsent(i) ==
  LET f == frame[i]
  IN /\ f.pc = "get_log"
     /\ Called(i, "get_object", "log")
     /\ \/ /\ s3_log.exists
           /\ log_read' = [log_read EXCEPT ![i] = "ok"]
           /\ Goto(i, [f EXCEPT !.pc = "put_log",
                                !.time_series = NewLog(s3_log.scenes, f.results)])
        \/ /\ ~s3_log.exists
           /\ log_read' = [log_read EXCEPT ![i] = "absent"]
           /\ Goto(i, [f EXCEPT !.pc = "put_log",
                                !.time_series = NewLog(<<>>, f.results)])
        \/ /\ log_read' = [log_read EXCEPT ![i] = "error"]
           /\ Raise(i, "get_object of the log failed")
     /\ read_version' = [read_version EXCEPT ![i] = log_version]
     /\ history' = [history EXCEPT !.read_failed = @ \/ log_read'[i] = "error"]
     /\ UNCHANGED <<pixels, event, found, s3_stats, s3_log, log_version, write_version>>

\* Faulty variant of the read: an invocation waits as long as another one is
\* about to read the log too.
update_time_series_log_read_Waits(i) ==
  LET f == frame[i]
  IN /\ f.pc = "get_log"
     /\ \A j \in Inv \ {i} : frame[j].pc # "get_log"
     /\ Called(i, "get_object", "log")
     /\ \/ /\ s3_log.exists
           /\ log_read' = [log_read EXCEPT ![i] = "ok"]
           /\ Goto(i, [f EXCEPT !.pc = "put_log",
                                !.time_series = NewLog(s3_log.scenes, f.results)])
        \/ /\ log_read' = [log_read EXCEPT ![i] =
                             IF s3_log.exists THEN "error" ELSE "absent"]
           /\ Goto(i, [f EXCEPT !.pc = "put_log",
                                !.time_series = NewLog(<<>>, f.results)])
        \/ /\ ~s3_log.exists
           /\ log_read' = [log_read EXCEPT ![i] = "error"]
           /\ Goto(i, [f EXCEPT !.pc = "put_log",
                                !.time_series = NewLog(<<>>, f.results)])
     /\ read_version' = [read_version EXCEPT ![i] = log_version]
     /\ history' = [history EXCEPT !.read_failed = @ \/ log_read'[i] = "error"]
     /\ UNCHANGED <<pixels, event, found, s3_stats, s3_log, log_version, write_version>>

\* update_time_series_log, lines 411-428: the log is read (an absent object
\* and every other failure of the read give the empty log), the entry is
\* appended and the list is cut.
update_time_series_log_read(i) ==
  LET f == frame[i]
  IN /\ f.pc = "get_log"
     /\ Called(i, "get_object", "log")
     /\ \/ /\ s3_log.exists
           /\ log_read' = [log_read EXCEPT ![i] = "ok"]
           /\ Goto(i, [f EXCEPT !.pc = "put_log",
                                !.time_series = NewLog(s3_log.scenes, f.results)])
        \/ /\ log_read' = [log_read EXCEPT ![i] =
                             IF s3_log.exists THEN "error" ELSE "absent"]
           /\ Goto(i, [f EXCEPT !.pc = "put_log",
                                !.time_series = NewLog(<<>>, f.results)])
        \/ /\ ~s3_log.exists
           /\ log_read' = [log_read EXCEPT ![i] = "error"]
           /\ Goto(i, [f EXCEPT !.pc = "put_log",
                                !.time_series = NewLog(<<>>, f.results)])
     /\ read_version' = [read_version EXCEPT ![i] = log_version]
     /\ history' = [history EXCEPT !.read_failed = @ \/ log_read'[i] = "error"]
     /\ UNCHANGED <<pixels, event, found, s3_stats, s3_log, log_version, write_version>>

\* Faulty variant of the write-back: the entry is appended to the log as it is stored
\* at the time of the write (an atomic append), not to what was read.
update_time_series_log_write_Atomic(i) ==
  LET f == frame[i]
  IN /\ f.pc = "put_log"
     /\ Called(i, "put_object", "log")
     /\ s3_log' = [exists |-> TRUE, scenes |-> NewLog(s3_log.scenes, f.results)]
     /\ log_version' = log_version + 1
     /\ write_version' = [write_version EXCEPT ![i] = log_version + 1]
     /\ Goto(i, [f EXCEPT !.pc = "return"])
     /\ UNCHANGED <<pixels, history, event, found, s3_stats, read_version, log_read>>

\* Faulty variant of the write-back: a writer that finds the log changed since
\* its read leaves the stored log as it is (the first writer wins).
update_time_series_log_write_FirstWins(i) ==
  LET f == frame[i]
  IN /\ f.pc = "put_log"
     /\ Called(i, "put_object", "log")
     /\ \/ /\ Raise(i, PutLogFailedMsg)
           /\ UNCHANGED <<s3_log, log_version, write_version>>
        \/ /\ s3_log' = IF read_version[i] = log_version
                         THEN [exists |-> TRUE, scenes |-> f.time_series]
                         ELSE s3_log
           /\ log_version' = log_version + 1
           /\ write_version' = [write_version EXCEPT ![i] = log_version + 1]
           /\ Goto(i, [f EXCEPT !.pc = "return"])
     /\ UNCHANGED <<pixels, history, event, found, s3_stats, read_version, log_read>>

\* update_time_series_log, lines 431-437: the log is written back in full; a
\* failure of the put is not caught there.
update_time_series_log_write(i) ==
  LET f == frame[i]
  IN /\ f.pc = "put_log"
     /\ Called(i, "put_object", "log")
     /\ \/ /\ Raise(i, PutLogFailedMsg)
           /\ UNCHANGED <<s3_log, log_version, write_version>>
        \/ /\ s3_log' = [exists |-> TRUE, scenes |-> f.time_series]
           /\ log_version' = log_version + 1
           /\ write_version' = [write_version EXCEPT ![i] = log_version + 1]
           /\ Goto(i, [f EXCEPT !.pc = "return"])
     /\ UNCHANGED <<pixels, history, event, found, s3_stats, read_version, log_read>>

\* The returns of upload_results_to_s3, process_scene_data (whose with block
\* removes the scratch directory) and lambda_handler, lines 403-404, 178-184
\* and 88-95.
return_success(i) ==
  /\ frame[i].pc = "return"
  /\ frame' = [frame EXCEPT ![i] = [Idle EXCEPT !.pc = "returned"]]
  /\ temp_dir' = [temp_dir EXCEPT ![i] = FALSE]
  /\ response' = [response EXCEPT ![i] = SuccessPayload(frame[i].results)]
  /\ history' = [history EXCEPT !.completed = @ + 1]
  /\ UNCHANGED <<pixels, event, calls, raised, found, s3>>

\* The compute environment ends a running invocation (its time or memory
\* ceiling): the process is gone, nothing of the handler runs any more.
Terminate(i) ==
  /\ frame[i].pc \notin {"idle", "returned", "killed"}
  /\ frame' = [frame EXCEPT ![i] = [Idle EXCEPT !.pc = "killed"]]
  /\ UNCHANGED <<pixels, history, event, temp_dir, response, calls, raised, found, s3>>

Next ==
  \E i \in Inv :
    \/ Invoke(i)
    \/ lambda_handler(i)
    \/ find_and_process_scene(i)
    \/ process_scene_data(i)
    \/ download_bands_to_tmp(i)
    \/ clip_bands_to_aoi(i)
    \/ calculate_vegetation_indices(i)
    \/ generate_lightweight_outputs(i)
    \/ upload_results_to_s3(i)
    \/ update_time_series_log_read(i)
    \/ update_time_series_log_write(i)
    \/ return_success(i)
    \/ Terminate(i)

Spec == Init /\ [][Next]_vars

\* ------------------------------------------------------- fair scheduling
\* The steps of the handler of invocation i.
Run(i) ==
  \/ lambda_handler(i)
  \/ find_and_process_scene(i)
  \/ process_scene_data(i)
  \/ download_bands_to_tmp(i)
  \/ clip_bands_to_aoi(i)
  \/ calculate_vegetation_indices(i)
  \/ generate_lightweight_outputs(i)
  \/ upload_results_to_s3(i)
  \/ update_time_series_log_read(i)
  \/ update_time_series_log_write(i)
  \/ return_success(i)

NextFair == \E i \in Inv : Invoke(i) \/ Run(i)

\* Every call returns or fails (each step of a handler ends), every running
\* handler is scheduled again and again, and the compute environment ends no
\* invocation.
SpecFair == Init /\ [][NextFair]_vars /\ \A i \in Inv : WF_vars(Run(i))

\* --------------------------------------------- one invocation after another
\* The handler is invoked again after it has returned: what is kept of the
\* invocation that ended is forgotten.
Recycle(i) ==
  /\ frame[i].pc = "returned"
  /\ history.started < MaxRuns
  /\ frame' = [frame EXCEPT ![i] = Idle]
  /\ event' = [event EXCEPT ![i] = NoEvent]
  /\ response' = [response EXCEPT ![i] = NoResponse]
  /\ calls' = [calls EXCEPT ![i] = <<>>]
  /\ read_version' = [read_version EXCEPT ![i] = 0]
  /\ write_version' = [write_version EXCEPT ![i] = 0]
  /\ log_read' = [log_read EXCEPT ![i] = "not read"]
  /\ found' = [found EXCEPT ![i] = "not searched"]
  /\ raised' = [raised EXCEPT ![i] = ""]
  /\ UNCHANGED <<pixels, history, temp_dir, s3_stats, s3_log, log_version>>

\* Invocations that do not overlap, each selecting the one scene of the
\* catalog, from an empty log.
InitSequential == Init /\ s3_log.scenes = <<>>

NextSequential ==
  \/ Invoke(1)
  \/ lambda_handler(1)
  \/ find_same_scene(1)
  \/ process_scene_data(1)
  \/ download_bands_to_tmp(1)
  \/ clip_bands_to_aoi(1)
  \/ calculate_vegetation_indices(1)
  \/ generate_lightweight_outputs(1)
  \/ upload_results_to_s3(1)
  \/ update_time_series_log_read(1)
  \/ update_time_series_log_write(1)
  \/ return_success(1)
  \/ Recycle(1)

SpecSequential == InitSequential /\ [][NextSequential]_vars

\* ------------------------------------------------ the functions on pixels
\* The pipeline at rest: no invocation runs while a function is analysed.
pipeline == <<frame, event, temp_dir, response, calls, s3_stats, s3_log,
              log_version, read_version, write_version, log_read, found,
              raised, history>>
AtRest ==
  /\ frame = [i \in Inv |-> Idle]
  /\ event = [i \in Inv |-> NoEvent]
  /\ temp_dir = [i \in Inv |-> FALSE]
  /\ response = [i \in Inv |-> NoResponse]
  /\ calls = [i \in Inv |-> <<>>]
  /\ s3_stats = <<>>
  /\ s3_log = [exists |-> FALSE, scenes |-> <<>>]
  /\ log_version = 0
  /\ read_version = [i \in Inv |-> 0]
  /\ write_version = [i \in Inv |-> 0]
  /\ log_read = [i \in Inv |-> "not read"]
  /\ found = [i \in Inv |-> "not searched"]
  /\ raised = [i \in Inv |-> ""]
  /\ history = [log0 |-> <<>>, started |-> 0, completed |-> 0,
                read_failed |-> FALSE]

\* calculate_vegetation_indices on any pixel of the four bands.
InitIndices ==
  /\ AtRest
  /\ bands \in BandPixels
  /\ indices = NoIndices
  /\ index_data = <<>>
  /\ outputs = NoResults
  /\ computed = "none"

ComputeIndices ==
  /\ computed = "none"
  /\ indices' = VegetationIndices(bands)
  /\ computed' = "indices"
  /\ UNCHANGED <<bands, index_data, outputs, pipeline>>

NextIndices == ComputeIndices

SpecIndices == InitIndices /\ [][NextIndices]_vars

\* generate_lightweight_outputs on any NDVI raster of up to MaxPixels pixels.
InitOutputs ==
  /\ AtRest
  /\ bands = NoBands
  /\ indices = NoIndices
  /\ index_data \in IndexRasters
  /\ outputs = NoResults
  /\ computed = "none"

ComputeOutputs ==
  /\ computed = "none"
  /\ outputs' = LightweightOutputs(index_data, "S", 1)
  /\ computed' = "outputs"
  /\ UNCHANGED <<bands, indices, index_data, pipeline>>

NextOutputs == ComputeOutputs

SpecOutputs == InitOutputs /\ [][NextOutputs]_vars

\* ------------------------------------------------------------------ claims
\* The entries of a log that the invocations of this run appended (the
\* entries of the initial log are those of older scenes).
NewEntries(scenes) == {k \in 1..Len(scenes) : scenes[k].scene_id # "old"}

Made(i, what, arg) == \E k \in 1..Len(calls[i]) : calls[i][k] = <<what, arg>>

\* C1: in every reachable state, whatever the interleaving of the
\* invocations and from an absent log or one of at most 20 entries, the
\* stored time-series log holds at most 20 entries.
C1_LogNeverExceedsCap == Len(s3_log.scenes) <= LogCap

\* Both invocations have written the log back and it is at its capacity.
C1_Witness == log_version = 2 /\ Len(s3_log.scenes) = LogCap

\* C2: an invocation that read a stored log of exactly 20 entries, with no
\* other write between its read and its write, writes back exactly 20
\* entries: the 19 newest of the old ones in their order, then its own.
C2_AtCapacityDropsOldest ==
  [][\A i \in Inv :
       ( /\ frame[i].pc = "put_log" /\ frame'[i].pc = "return"
         /\ log_read[i] = "ok"
         /\ read_version[i] = log_version
         /\ Len(s3_log.scenes) = LogCap )
       => /\ Len(s3_log'.scenes) = LogCap
          /\ s3_log'.scenes =
               Tail(s3_log.scenes) \o <<LogEntry(frame[i].results)>>]_vars

\* An invocation, alone between its read and its write, has written back a
\* log that was at capacity: the oldest entry is gone and its own is last.
C2_Witness ==
  \E i \in Inv :
    /\ frame[i].pc = "return" /\ log_read[i] = "ok"
    /\ write_version[i] = read_version[i] + 1 /\ log_version = write_version[i]
    /\ Len(s3_log.scenes) = LogCap
    /\ s3_log.scenes[1] = OldEntry(2, LogCap)
    /\ s3_log.scenes[LogCap] = LogEntry(frame[i].results)

\* i and j both read the log before either of them wrote it, and both have
\* written it.
BothReadBeforeEitherWrote(i, j) ==
  /\ i # j
  /\ write_version[i] > 0 /\ write_version[j] > 0
  /\ read_version[i] < write_version[j] /\ read_version[j] < write_version[i]
  /\ read_version[i] < write_version[i] /\ read_version[j] < write_version[j]

\* C3: when two invocations both read the log before either writes it back,
\* the log left after both writes holds only one of the two new entries (that
\* of the last writer): the update of the first writer is lost.
C3_LostUpdate ==
  \A i, j \in Inv :
    (BothReadBeforeEitherWrote(i, j) /\ log_version = write_version[j])
    => /\ Cardinality(NewEntries(s3_log.scenes)) = 1
       /\ NewEntries(s3_log.scenes) = {Len(s3_log.scenes)}

\* The lost update has happened: both invocations returned 200, and the log
\* holds one new entry.
C3_Witness ==
  /\ BothReadBeforeEitherWrote(1, 2)
  /\ log_version = 2
  /\ \A i \in Inv : frame[i].pc = "returned" /\ response[i].statusCode = 200
  /\ Cardinality(NewEntries(s3_log.scenes)) = 1

\* The log update of invocation i failed: its read ended in an error, or its
\* write-back was attempted and wrote nothing.
LogUpdateFailed(i) ==
  \/ log_read[i] = "error"
  \/ Made(i, "put_object", "log") /\ write_version[i] = 0

\* C4: if the log update of an invocation fails (its read or its write-back)
\* after its statistics record was written, lambda_handler still returns the
\* 200 success payload.
C4_LogFailureDoesNotOverride ==
  \A i \in Inv :
    (frame[i].pc = "returned" /\ LogUpdateFailed(i))
    => response[i].statusCode = 200

\* The put of the statistics record of invocation i was made and succeeded.
StatsWritten(i) ==
  Made(i, "put_object", "stats") /\ raised[i] # PutStatsFailedMsg

\* C5 as stated: a terminated invocation leaves either both its statistics
\* record and its log entry, or neither.
C5_AllOrNothing ==
  \A i \in Inv :
    frame[i].pc = "killed" => (StatsWritten(i) <=> write_version[i] > 0)

\* C5 as amended: a log entry is never durable without its statistics
\* record: an invocation that wrote the log wrote its record before, and
\* every entry appended to the log has its record in the bucket.
C5_NoLogEntryWithoutStats ==
  /\ \A i \in Inv : write_version[i] > 0 => StatsWritten(i)
  /\ \A k \in NewEntries(s3_log.scenes) :
       <<"results/statistics/", s3_log.scenes[k].date, s3_log.scenes[k].scene_id>>
         \in DOMAIN s3_stats

\* An invocation was terminated after its write of the log: its entry is the
\* last of the log.
C5_Witness ==
  \E i \in Inv :
    /\ frame[i].pc = "killed"
    /\ write_version[i] > 0 /\ write_version[i] = log_version
    /\ Len(s3_log.scenes) \in NewEntries(s3_log.scenes)

\* C6: when the search returns no scene, the invocation fails with 'No
\* suitable scenes found' and has made no call but the search: no download,
\* no clipping, no index computation, no read or write of the bucket, no
\* scratch directory.
C6_NoScenesFound ==
  \A i \in Inv :
    found[i] = "no scenes"
    => /\ frame[i].pc = "returned"
       /\ response[i].statusCode = 500
       /\ response[i].error = "No suitable scenes found"
       /\ calls[i] = << <<"search", "">> >>
       /\ ~temp_dir[i]
       /\ write_version[i] = 0 /\ log_read[i] = "not read"

C6_Witness ==
  \E i \in Inv : found[i] = "no scenes" /\ frame[i].pc = "returned"

\* C7: the scene selected from a non-empty list of candidates has the
\* smallest cloud cover of the list and is the first of the list with that
\* cloud cover.
C7_LowestCloudFirst ==
  \A i \in Inv :
    frame[i].pc = "selected"
    => LET items == frame[i].items
           best == frame[i].best_scene
       IN \E b \in 1..Len(items) :
            /\ items[b] = best
            /\ \A k \in 1..Len(items) : best.cloud <= items[k].cloud
            /\ \A k \in 1..(b - 1) : items[k].cloud > best.cloud

\* Two candidates tie for the smallest cloud cover and the first is selected.
C7_Witness ==
  \E i \in Inv :
    /\ frame[i].pc = "selected"
    /\ Len(frame[i].items) = 2
    /\ frame[i].items[1].cloud = frame[i].items[2].cloud
    /\ frame[i].best_scene = frame[i].items[1]

EarlyFailures ==
  {SearchFailedMsg, "No suitable scenes found", DownloadFailedMsg,
   ClipFailedMsg, KeyErrorMsg, IndexFailedMsg}

MadeS3Call(i) ==
  \E k \in 1..Len(calls[i]) : calls[i][k][1] \in {"put_object", "get_object"}

\* C8: a failure in search, acquisition, clipping or index computation ends
\* the invocation with the error payload, and the invocation has neither
\* written a statistics record nor read or written the log; if no invocation
\* got further, the bucket is as it was.
C8_EarlyFailureLeavesStorage ==
  /\ \A i \in Inv :
       raised[i] \in EarlyFailures
       => /\ frame[i].pc = "returned"
          /\ response[i].statusCode = 500 /\ response[i].error = raised[i]
          /\ ~MadeS3Call(i)
          /\ write_version[i] = 0 /\ log_read[i] = "not read"
  /\ (\A i \in Inv : raised[i] \in EarlyFailures)
       => DOMAIN s3_stats = {} /\ log_version = 0

\* One invocation failed in the index computation, the other in clipping.
C8_Witness ==
  /\ raised[1] \in {IndexFailedMsg, KeyErrorMsg}
  /\ raised[2] = ClipFailedMsg
  /\ Made(1, "index", "")

\* C9: lambda_handler returns 200 exactly when no failure reached it, and 500
\* with the message of the failure in 'error' otherwise.
C9_StatusConvention ==
  \A i \in Inv :
    frame[i].pc = "returned"
    => /\ response[i].statusCode = 200 <=> raised[i] = ""
       /\ raised[i] # ""
            => response[i].statusCode = 500 /\ response[i].error = raised[i]

\* One invocation returned 500 for a failed write of the log, the other 200.
C9_Witness ==
  /\ frame[1].pc = "returned" /\ raised[1] = PutLogFailedMsg
  /\ response[1].statusCode = 500
  /\ frame[2].pc = "returned" /\ response[2].statusCode = 200
  /\ write_version[2] > 0

\* C10 as stated, for an invocation that is not a test-mode call: when its
\* event carries a scene_id it makes no call (no search, no download, no
\* write) and returns the not-implemented error.
C10_SceneIdAlwaysFails ==
  \A i \in Inv :
    (frame[i].pc # "idle" /\ ~event[i].test_mode
     /\ event[i].scene_id # SceneIdAbsent)
    => /\ calls[i] = <<>>
       /\ frame[i].pc = "returned"
            => /\ response[i].statusCode = 500
               /\ response[i].error = "Direct scene ID processing not implemented"

\* C10 as amended: an invocation whose event carries a non-empty scene_id
\* makes no call, and outside test mode it returns the not-implemented error.
C10_NonEmptySceneIdFails ==
  \A i \in Inv :
    (frame[i].pc # "idle" /\ event[i].scene_id \notin {SceneIdAbsent, SceneIdEmpty})
    => /\ calls[i] = <<>>
       /\ ~temp_dir[i]
       /\ frame[i].pc \in {"handler", "returned", "killed"}
       /\ (frame[i].pc = "returned" /\ ~event[i].test_mode)
            => /\ response[i].statusCode = 500
               /\ response[i].error = "Direct scene ID processing not implemented"

C10_Witness ==
  \E i \in Inv :
    /\ event[i].scene_id = "S1" /\ ~event[i].test_mode
    /\ frame[i].pc = "returned" /\ response[i].statusCode = 500

\* The place of a call in the order of the stages.
StageRank(call) ==
  CASE call[1] = "search" -> 1
    [] call[1] = "download" -> 2
    [] call[1] = "clip" -> 3
    [] call[1] = "index" -> 4
    [] call[1] = "summarize" -> 5
    [] OTHER -> 6

FullRecords == {Results(scene) : scene \in Scenes}

\* C11: the calls of an invocation follow the order search, transfer, clip,
\* index computation, summarization, storage; the clip of a band comes after
\* the transfer of that band; a call of the store comes after the
\* summarization, and every record stored is a full result record.
C11_StagesInOrder ==
  /\ \A i \in Inv : \A k \in 1..Len(calls[i]) :
        /\ \A j \in 1..k : StageRank(calls[i][j]) <= StageRank(calls[i][k])
        /\ calls[i][k][1] = "clip" =>
              \E j \in 1..(k - 1) : calls[i][j] = <<"download", calls[i][k][2]>>
        /\ StageRank(calls[i][k]) = 6 =>
              \E j \in 1..(k - 1) : calls[i][j] = <<"summarize", "">>
  /\ \A key \in DOMAIN s3_stats : s3_stats[key] \in FullRecords
  /\ \A k \in NewEntries(s3_log.scenes) :
        \E r \in FullRecords : s3_log.scenes[k] = LogEntry(r)

\* An invocation went through every stage: the search, four transfers, four
\* clips, the indices, the summary and the three calls of the store.
C11_Witness ==
  \E i \in Inv :
    /\ frame[i].pc = "return"
    /\ calls[i] = <<<<"search", "">>,
                    <<"download", "red">>, <<"download", "green">>,
                    <<"download", "blue">>, <<"download", "nir">>,
                    <<"clip", "red">>, <<"clip", "green">>,
                    <<"clip", "blue">>, <<"clip", "nir">>,
                    <<"index", "">>, <<"summarize", "">>,
                    <<"put_object", "stats">>, <<"get_object", "log">>,
                    <<"put_object", "log">>>>

\* The bands transferred and clipped before the k-th call of invocation i.
ClippedBefore(i, k) ==
  {b \in AllBands : /\ \E j \in 1..(k - 1) : calls[i][j] = <<"download", b>>
                    /\ \E j \in 1..(k - 1) : calls[i][j] = <<"clip", b>>}

\* C12 as stated: calculate_vegetation_indices is not called before all four
\* bands have been transferred and clipped.
C12_IndexOnlyAfterAllBands ==
  \A i \in Inv : \A k \in 1..Len(calls[i]) :
    calls[i][k] = <<"index", "">> => ClippedBefore(i, k) = AllBands

\* C12, amended: indices are handed to the summarization only if all four
\* bands were transferred and clipped before calculate_vegetation_indices was
\* called; when it is called with fewer bands (a scene without the asset of a
\* required band), it raises KeyError: the handler returns the 500 payload,
\* nothing is summarized and no call of the store is made.
C12_NoIndicesWithoutAllBands ==
  \A i \in Inv : \A k \in 1..Len(calls[i]) :
    calls[i][k] = <<"index", "">> =>
      /\ \/ frame[i].pc \in {"summarize", "put_stats", "get_log", "put_log", "return"}
         \/ Len(calls[i]) > k
         => ClippedBefore(i, k) = AllBands
      /\ ClippedBefore(i, k) # AllBands =>
           /\ k = Len(calls[i])
           /\ frame[i].pc = "returned"
           /\ raised[i] = KeyErrorMsg
           /\ response[i] = ErrorPayload(KeyErrorMsg)
           /\ ~temp_dir[i]

\* An invocation whose scene has no nir asset transferred and clipped the
\* other three bands, called calculate_vegetation_indices and failed there.
C12_Witness ==
  \E i \in Inv :
    /\ calls[i] = <<<<"search", "">>,
                    <<"download", "red">>, <<"download", "green">>,
                    <<"download", "blue">>,
                    <<"clip", "red">>, <<"clip", "green">>, <<"clip", "blue">>,
                    <<"index", "">>>>
    /\ raised[i] = KeyErrorMsg /\ response[i].statusCode = 500

\* C13: when lambda_handler has returned, by the success payload or after a
\* failure raised in any stage, the scratch directory of the invocation does
\* not exist.
C13_ScratchRemoved ==
  \A i \in Inv : frame[i].pc = "returned" => ~temp_dir[i]

\* One invocation has returned with success and the other after a failure
\* of the summarization; both had a scratch directory (they transferred
\* bands into it) and neither directory exists.
C13_Witness ==
  \E i, j \in Inv :
    /\ frame[i].pc = "returned" /\ raised[i] = ""
    /\ response[i].statusCode = 200 /\ Made(i, "download", "red")
    /\ frame[j].pc = "returned" /\ raised[j] = SummarizeFailedMsg
    /\ Made(j, "download", "red")
    /\ ~temp_dir[i] /\ ~temp_dir[j]

\* The projection of a result record the log keeps: scene identifier, date,
\* mean vegetation index, health label.
Projection(r) ==
  [scene_id |-> r.scene_id, date |-> r.scene_date,
   ndvi_mean |-> IF r.has_ndvi THEN r.ndvi.mean ELSE 0,
   vegetation_health |-> r.vegetation_health]

\* C14: an invocation that found the log absent goes on as from an empty
\* log: the absence raises nothing (it can still fail only by the write of
\* the log), the log it writes back holds one entry, the projection of its
\* result record, and having returned without a failure it returned the
\* 200 payload.
C14_AbsentLogIsEmptyLog ==
  \A i \in Inv :
    log_read[i] = "absent" =>
      /\ raised[i] \in {"", PutLogFailedMsg}
      /\ frame[i].pc = "put_log" =>
            frame[i].time_series = <<Projection(frame[i].results)>>
      /\ frame[i].pc = "return" /\ write_version[i] = log_version =>
            s3_log = [exists |-> TRUE,
                      scenes |-> <<Projection(frame[i].results)>>]
      /\ frame[i].pc = "returned" /\ raised[i] = "" =>
            response[i].statusCode = 200 /\ write_version[i] > 0

\* An invocation found the log absent, wrote it and returned with success;
\* it was the only writer and the log holds its one entry.
C14_Witness ==
  \E i \in Inv :
    /\ log_read[i] = "absent" /\ frame[i].pc = "returned"
    /\ response[i].statusCode = 200
    /\ write_version[i] = 1 /\ log_version = 1
    /\ s3_log.exists /\ Len(s3_log.scenes) = 1
    /\ s3_log.scenes[1].scene_id = response[i].scene_id

\* A step of invocation i in which the transfer of band b was requested and
\* failed: the request is made and the band is not among the downloaded ones.
TransferFails(i, b) ==
  /\ frame[i].pc = "download"
  /\ calls'[i] = Append(calls[i], <<"download", b>>)
  /\ \A k \in 1..Len(frame'[i].downloaded_bands) :
        frame'[i].downloaded_bands[k] # b

\* C15: the step in which the transfer of a band fails ends the invocation:
\* the handler has returned the 500 payload with the message of the failure,
\* the failed request is the last call of the invocation (no later band, no
\* clip, no index computation, no call of the store), nothing was stored and
\* the scratch directory is gone; an invocation that has returned makes no
\* further call.
C15_TransferFailureAborts ==
  [][\A i \in Inv :
       /\ \A b \in AllBands :
            TransferFails(i, b) =>
              /\ frame'[i].pc = "returned"
              /\ raised'[i] = DownloadFailedMsg
              /\ response'[i] = ErrorPayload(DownloadFailedMsg)
              /\ \A k \in 1..Len(calls'[i]) :
                    calls'[i][k][1] \in {"search", "download"}
              /\ <<s3_stats, s3_log>>' = <<s3_stats, s3_log>>
              /\ write_version'[i] = 0
              /\ ~temp_dir'[i]
       /\ frame[i].pc = "returned" =>
            /\ calls'[i] = calls[i]
            /\ frame'[i].pc = "returned"]_vars

\* The transfer of the third band failed after two bands had been
\* transferred: the invocation returned the 500 payload.
C15_Witness ==
  \E i \in Inv :
    /\ calls[i] = <<<<"search", "">>, <<"download", "red">>,
                    <<"download", "green">>, <<"download", "blue">>>>
    /\ frame[i].pc = "returned"
    /\ raised[i] = DownloadFailedMsg
    /\ response[i] = ErrorPayload(DownloadFailedMsg)

\* The valid pixels of the raster given to generate_lightweight_outputs,
\* their number, their sum (thousandths) and the number of them above 0.3.
ValidCount == Cardinality({k \in 1..Len(index_data) : ~index_data[k].nan})
ValidSum == SumSeq(SelectSeq(index_data, LAMBDA p : ~p.nan))
VegetatedCount ==
  Cardinality({k \in 1..Len(index_data) :
                 ~index_data[k].nan /\ index_data[k].v > 300})

C17_CoverageIsRatio ==
  computed = "outputs" =>
    /\ ValidCount = 0 => outputs.vegetation_coverage = 0
    /\ ValidCount > 0 =>
         outputs.vegetation_coverage * ValidCount = VegetatedCount * 1000
    /\ outputs.vegetation_coverage \in 0..1000

\* C17, amended: the coverage shown is the vegetated count over the valid
\* count times 100 rounded to one decimal (at most half a tenth of a percent
\* away from it), 0.0 when no pixel is valid, and lies within 0.0 to 100.0;
\* the vegetated count never exceeds the valid count.
C17_CoverageIsRoundedRatio ==
  computed = "outputs" =>
    LET diff == outputs.vegetation_coverage * ValidCount - VegetatedCount * 1000
    IN /\ ValidCount = 0 => outputs.vegetation_coverage = 0
       /\ ValidCount > 0 => 2 * diff <= ValidCount /\ -2 * diff <= ValidCount
       /\ outputs.vegetation_coverage \in 0..1000
       /\ VegetatedCount <= ValidCount
       /\ outputs.has_ndvi =>
            outputs.ndvi.veg = VegetatedCount /\ outputs.ndvi.count = ValidCount

\* Two of three valid pixels are above 0.3 (a fourth is masked): the coverage
\* shown is 66.7%, not two thirds of 100.
C17_Witness ==
  /\ computed = "outputs"
  /\ ValidCount = 3 /\ VegetatedCount = 2 /\ Len(index_data) = 4
  /\ outputs.vegetation_coverage = 667

\* The result records there are in a state: those the running invocations
\* hold and those stored.
HoldsRecord(i) == frame[i].pc \in {"put_stats", "get_log", "put_log", "return"}
Records ==
  {frame[i].results : i \in {j \in Inv : HoldsRecord(j)}}
    \cup {s3_stats[key] : key \in DOMAIN s3_stats}

\* C18: two result records with the same statistics carry the same health
\* label and the same coverage, whatever the log and the stored records
\* were when each was made.
C18_LabelFromOwnStatistics ==
  \A r1, r2 \in Records :
    (r1.has_ndvi = r2.has_ndvi /\ r1.ndvi = r2.ndvi) =>
      /\ r1.vegetation_health = r2.vegetation_health
      /\ r1.vegetation_coverage = r2.vegetation_coverage

\* Both invocations processed the same scene; the first has stored its record
\* and written the log, the second has summarized and holds its record: the
\* labels and coverages agree.
C18_Witness ==
  \E i, j \in Inv :
    /\ i # j
    /\ frame[i].pc = "returned" /\ write_version[i] = 1 /\ log_version = 1
    /\ frame[j].pc = "put_stats"
    /\ read_version[i] = 0 /\ log_read[i] = "absent"
    /\ StatsKey(frame[j].results) \in DOMAIN s3_stats
    /\ s3_stats[StatsKey(frame[j].results)].vegetation_health
         = frame[j].results.vegetation_health
    /\ s3_stats[StatsKey(frame[j].results)].vegetation_coverage
         = frame[j].results.vegetation_coverage

\* C19: when every pixel of the NDVI raster is masked, no statistics of NDVI
\* are in the record and the absence shows as insufficient data in what is
\* derived from them: the health label is neither Good nor Poor, and the
\* coverage and the mean of the log entry are not the number 0.
C19_AllMaskedIsInsufficientData ==
  (computed = "outputs" /\ Len(index_data) > 0 /\ ValidCount = 0) =>
    /\ ~outputs.has_ndvi
    /\ outputs.vegetation_health \notin {"Good", "Poor"}
    /\ outputs.vegetation_coverage # 0
    /\ LogEntry(outputs).ndvi_mean # 0

\* Scaled reflectance raw/10000 outside (0, 1].
OutsideRange(raw) == ~(0 < raw /\ raw <= 10000)

\* C20: at a pixel, NDVI is masked when red or nir is outside (0, 1], NDWI
\* when green or nir is, EVI when red, nir or blue is; and an index is masked
\* where its denominator (nir + red, green + nir, nir + 6 red - 7.5 blue + 1)
\* is not positive.
C20_MaskPropagates ==
  computed = "indices" =>
    LET red == bands["red"]
        nir == bands["nir"]
        green == bands["green"]
        blue == bands["blue"]
    IN /\ (OutsideRange(red) \/ OutsideRange(nir)) => indices.NDVI.nan
       /\ (OutsideRange(green) \/ OutsideRange(nir)) => indices.NDWI.nan
       /\ (OutsideRange(red) \/ OutsideRange(nir) \/ OutsideRange(blue))
            => indices.EVI.nan
       /\ nir + red <= 0 => indices.NDVI.nan
       /\ green + nir <= 0 => indices.NDWI.nan
       /\ 2 * nir + 12 * red - 15 * blue + 20000 <= 0 => indices.EVI.nan
       /\ \A x \in {indices.NDVI, indices.NDWI, indices.EVI} :
            ~x.nan => x.den > 0

\* A pixel whose red count is 0 (nodata) and whose other bands are valid:
\* NDVI and EVI are masked there, NDWI is not.
C20_Witness ==
  /\ computed = "indices"
  /\ bands["red"] = 0
  /\ \A b \in {"green", "blue", "nir"} : ~OutsideRange(bands[b])
  /\ indices.NDVI.nan /\ indices.EVI.nan /\ ~indices.NDWI.nan

\* C21: at a pixel whose raw red and nir counts are in 1..10000, NDVI is not
\* masked and lies in [-1, 1] (its numerator is between minus and plus its
\* denominator); and so does every NDVI pixel that is not masked.
C21_NdviInRange ==
  computed = "indices" =>
    /\ (bands["red"] \in 1..10000 /\ bands["nir"] \in 1..10000)
         => ~indices.NDVI.nan
    /\ ~indices.NDVI.nan =>
         /\ indices.NDVI.den > 0
         /\ -indices.NDVI.den <= indices.NDVI.num
         /\ indices.NDVI.num <= indices.NDVI.den

\* The pixel of the highest red and the lowest nir counts: NDVI is
\* -9999/10001, next to -1.
C21_Witness ==
  /\ computed = "indices"
  /\ bands["red"] = 10000 /\ bands["nir"] = 1
  /\ indices.NDVI = [nan |-> FALSE, num |-> -9999, den |-> 10001]

\* C22: an invocation whose event has test_mode set makes no call at all (no
\* search, no transfer, no read or write of the store), has no scratch
\* directory, raises nothing, and returns the payload with statusCode 200 and
\* test_passed true, whatever else the event holds; the step that returns
\* it leaves the store as it is.
C22_TestModeTouchesNothing ==
  [][\A i \in Inv :
       /\ event'[i].test_mode =>
            /\ calls'[i] = <<>>
            /\ ~temp_dir'[i]
            /\ found'[i] = "not searched" /\ log_read'[i] = "not read"
            /\ read_version'[i] = 0 /\ write_version'[i] = 0
            /\ raised'[i] = ""
            /\ frame'[i].pc \in {"handler", "returned", "killed"}
            /\ frame'[i].pc = "returned" =>
                 /\ response'[i].statusCode = 200
                 /\ response'[i].test_passed
       /\ (event[i].test_mode /\ frame'[i] # frame[i]) =>
            <<s3_stats, s3_log, log_version>>' = <<s3_stats, s3_log, log_version>>
    ]_vars

\* A test mode event that also holds a scene_id and a date range: the
\* invocation has returned the test payload and made no call.
C22_Witness ==
  \E i \in Inv :
    /\ event[i] = [test_mode |-> TRUE, scene_id |-> "S1", dates |-> TRUE]
    /\ frame[i].pc = "returned"
    /\ response[i] = TestPayload
    /\ calls[i] = <<>> /\ ~temp_dir[i]

\* The put_object calls of an invocation, in the order they were made.
Puts(i) == SelectSeq(calls[i], LAMBDA c : c[1] = "put_object")

\* C23: when upload_results_to_s3 has returned, the invocation has made at
\* least two put_object calls, the first being the statistics record, stored
\* under a key that starts with results/statistics/, the write-back of the
\* log coming after it; the list it returns is not empty and every location
\* in it starts with s3://.
C23_UploadWritesAndReturnsLocations ==
  \A i \in Inv :
    frame[i].pc = "return" =>
      LET f == frame[i]
      IN /\ Len(Puts(i)) >= 2
         /\ Puts(i)[1] = <<"put_object", "stats">>
         /\ \E k \in 2..Len(Puts(i)) : Puts(i)[k] = <<"put_object", "log">>
         /\ StatsKey(f.results) \in DOMAIN s3_stats
         /\ StatsKey(f.results)[1] = "results/statistics/"
         /\ f.s3_paths # <<>>
         /\ \A k \in 1..Len(f.s3_paths) :
              /\ f.s3_paths[k].scheme = "s3://"
              /\ f.s3_paths[k].key[1] = "results/statistics/"

\* upload_results_to_s3 has returned after its two writes.
C23_Witness ==
  \E i \in Inv :
    /\ frame[i].pc = "return"
    /\ Puts(i) = <<(<<"put_object", "stats">>), (<<"put_object", "log">>)>>
    /\ Len(frame[i].s3_paths) = 1
    /\ s3_log.exists /\ write_version[i] > 0

\* C24 as stated: in every reachable state the entries of the log are in
\* non-decreasing order of scene date.
C24_DateOrder ==
  \A k \in 1..(Len(s3_log.scenes) - 1) :
    s3_log.scenes[k].date <= s3_log.scenes[k + 1].date

\* C24, amended: the entries of the log are in append order, not in date
\* order. Every write of the log puts the entry of the writer last, whatever
\* its date, and, when the writer read the log as it is stored now, keeps
\* before it the stored entries in the order they had (the oldest one
\* dropped at the cap).
C24_AppendOrder ==
  [][s3_log' # s3_log =>
       \E i \in Inv :
         /\ frame[i].pc = "put_log" /\ frame'[i].pc = "return"
         /\ s3_log'.scenes # <<>>
         /\ s3_log'.scenes[Len(s3_log'.scenes)] = Projection(frame[i].results)
         /\ (read_version[i] = log_version /\ log_read[i] \in {"ok", "absent"}) =>
              SubSeq(s3_log'.scenes, 1, Len(s3_log'.scenes) - 1)
                = LastN(s3_log.scenes, LogCap - 1)
    ]_vars

\* Two invocations, one after the other, appended the scene of date 2 and
\* then the scene of date 1: the log ends with a date inversion.
C24_Witness ==
  LET n == Len(s3_log.scenes)
  IN /\ n >= 2 /\ log_version = 2
     /\ s3_log.scenes[n - 1].scene_id = "S1" /\ s3_log.scenes[n - 1].date = 2
     /\ s3_log.scenes[n].scene_id = "S2" /\ s3_log.scenes[n].date = 1
     /\ \A i \in Inv : frame[i].pc = "returned" /\ response[i].statusCode = 200

\* The invocation returned the 200 payload of a processed scene, having read
\* the log (or found it absent) and written it back.
Succeeded(i) ==
  /\ frame[i].pc = "returned"
  /\ response[i].statusCode = 200 /\ ~response[i].test_passed
  /\ write_version[i] > 0
  /\ log_read[i] \in {"ok", "absent"}

\* The log entry of the scene an invocation reports in its payload.
EntryOf(i) ==
  LogEntry(Results(CHOOSE sc \in {S1, S2, S3} : sc.id = response[i].scene_id))

\* C25: invocations that do not overlap (each has written the log before
\* the next one reads it) lose no entry but by the cap: after one such
\* invocation the log is the last 20 of the initial log followed by its
\* entry, after two it is the last 20 of the initial log followed by the two
\* entries in invocation order. A successful invocation is one whose read of
\* the log returned the stored log or found it absent.
C25_SequentialAppends ==
  \A a \in Inv :
    Succeeded(a) =>
      /\ (log_version = 1) =>
           s3_log.scenes = LastN(history.log0 \o <<EntryOf(a)>>, LogCap)
      /\ \A b \in Inv \ {a} :
           (Succeeded(b) /\ write_version[a] <= read_version[b]
              /\ log_version = 2) =>
             s3_log.scenes
               = LastN(history.log0 \o <<EntryOf(a), EntryOf(b)>>, LogCap)

\* Two invocations ran one after the other from a log of 19 entries: the
\* oldest entry is gone and the two new entries are last, in invocation
\* order.
C25_Witness ==
  \E a, b \in Inv :
    /\ a # b /\ Succeeded(a) /\ Succeeded(b)
    /\ write_version[a] = 1 /\ read_version[b] = 1 /\ write_version[b] = 2
    /\ Len(history.log0) = LogCap - 1
    /\ Len(s3_log.scenes) = LogCap
    /\ s3_log.scenes[1] = history.log0[2]
    /\ s3_log.scenes[LogCap - 1] = EntryOf(a)
    /\ s3_log.scenes[LogCap] = EntryOf(b)
    /\ EntryOf(a) # EntryOf(b)

\* The bands requested by the download calls of a list of calls, in order.
Requested(cs) ==
  LET sel == SelectSeq(cs, LAMBDA c : c[1] = "download")
  IN [k \in 1..Len(sel) |-> sel[k][2]]

\* The first n required bands that are among the assets, in the fixed order.
Present(assets, n) ==
  SelectSeq(SubSeq(required_bands, 1, n), LAMBDA b : b \in assets)

\* C26: download_bands_to_tmp makes one request per required band that the
\* scene offers, in the order red, green, blue, nir, and returns those bands:
\* when it has returned, the bands requested and the bands returned are both
\* the required bands among the assets, in that order. A required band that
\* the scene does not offer is passed over: the step makes no call, raises
\* nothing and the invocation goes on.
C26_OneRequestPerPresentBand ==
  [][\A i \in Inv :
       frame[i].pc = "download" =>
         LET f == frame[i]
             b == required_bands[f.band]
             all == Present(f.best_scene.assets, Len(required_bands))
         IN /\ Requested(calls[i]) = Present(f.best_scene.assets, f.band - 1)
            /\ f.downloaded_bands = Requested(calls[i])
            /\ (frame'[i].pc \in {"clip", "index"}) =>
                 /\ Requested(calls'[i]) = all
                 /\ frame'[i].downloaded_bands = all
            /\ (b \notin f.best_scene.assets /\ frame'[i] # f) =>
                 /\ calls'[i] = calls[i]
                 /\ raised'[i] = ""
                 /\ frame'[i].pc \in {"download", "clip", "index", "killed"}
            /\ (b \in f.best_scene.assets /\ frame'[i] # f
                  /\ frame'[i].pc \in {"download", "clip"}) =>
                 /\ calls'[i] = Append(calls[i], <<"download", b>>)
                 /\ frame'[i].downloaded_bands = Append(f.downloaded_bands, b)
    ]_vars

\* The download returned red, green and blue for a scene without nir, after
\* three requests; nothing was raised.
C26_Witness ==
  \E i \in Inv :
    /\ frame[i].pc = "clip" /\ frame[i].band = 1
    /\ "nir" \notin frame[i].best_scene.assets
    /\ Requested(calls[i]) = <<"red", "green", "blue">>
    /\ frame[i].downloaded_bands = <<"red", "green", "blue">>
    /\ raised[i] = ""

\* C27: no invocation waits for another one. Every invocation that has
\* started returns a payload of status 200 or 500 in the end, whatever the
\* other invocation does, provided it is scheduled and each of its calls
\* returns or fails.
C27_EveryInvocationReturns ==
  \A i \in Inv :
    (frame[i].pc = "handler")
      ~> (frame[i].pc = "returned" /\ response[i].statusCode \in {200, 500})

\* Two invocations ran at the same time (both read the log before either
\* wrote it) and both have returned a payload.
C27_Witness ==
  /\ \A i \in Inv : frame[i].pc = "returned" /\ response[i].statusCode \in {200, 500}
  /\ read_version[1] = 0 /\ read_version[2] = 0
  /\ write_version[1] > 0 /\ write_version[2] > 0

\* The number of entries of a log that come from the initial log.
OldEntries(scenes) == Cardinality({k \in 1..Len(scenes) : scenes[k].scene_id = "old"})

\* C28: after two successful invocations a and b, in whatever interleaving,
\* from a stored log L, the log is the last 20 of L followed by the two
\* entries in either order or by one of them alone; its last element is the
\* entry of the invocation that wrote last; and the entries of L it holds
\* are all of L but those the cap of 20 pushed out. When the second writer
\* read the log after the first wrote it both entries are there, otherwise
\* only that of the last writer. A successful invocation is one whose read
\* of the log returned the stored log or found it absent.
C28_TwoConcurrentInvocations ==
  (Succeeded(1) /\ Succeeded(2)) =>
    LET L == history.log0
        a == EntryOf(1)
        b == EntryOf(2)
        final == s3_log.scenes
        first == CHOOSE i \in Inv : write_version[i] = 1
        last == CHOOSE i \in Inv : write_version[i] = 2
        new == Len(final) - OldEntries(final)
    IN /\ log_version = 2
       /\ final \in {LastN(L \o <<a, b>>, LogCap), LastN(L \o <<b, a>>, LogCap),
                      LastN(L \o <<a>>, LogCap), LastN(L \o <<b>>, LogCap)}
       /\ final[Len(final)] = EntryOf(last)
       /\ new \in {1, 2}
       /\ OldEntries(final) = IF Len(L) + new <= LogCap THEN Len(L) ELSE LogCap - new
       /\ final = IF read_version[last] = 1
                  THEN LastN(L \o <<EntryOf(first), EntryOf(last)>>, LogCap)
                  ELSE LastN(L \o <<EntryOf(last)>>, LogCap)

\* Both invocations read a log of 19 entries before either wrote it: the
\* log holds the 19 entries and the entry of the last writer alone, the
\* entry of the first writer being lost.
C28_Witness ==
  /\ Succeeded(1) /\ Succeeded(2)
  /\ read_version[1] = 0 /\ read_version[2] = 0
  /\ write_version[1] = 2
  /\ EntryOf(1) # EntryOf(2)
  /\ Len(history.log0) = LogCap - 1
  /\ s3_log.scenes = history.log0 \o <<EntryOf(1)>>

\* C29: a read of the log that fails for another reason than the absence of
\* the object (the object is there, the read or the parsing fails) is taken
\* as an empty log too: nothing is raised by it, the list to write back
\* holds the new entry alone, and once written the log holds that one entry,
\* every entry stored before being gone; the invocation returns the 200
\* payload unless the write itself fails.
C29_FailedReadIsEmptyLog ==
  \A i \in Inv :
    log_read[i] = "error" =>
      /\ raised[i] \in {"", PutLogFailedMsg}
      /\ frame[i].pc = "put_log" =>
            frame[i].time_series = <<Projection(frame[i].results)>>
      /\ frame[i].pc = "return" /\ write_version[i] = log_version =>
            /\ s3_log = [exists |-> TRUE,
                         scenes |-> <<Projection(frame[i].results)>>]
            /\ OldEntries(s3_log.scenes) = 0
      /\ frame[i].pc = "returned" /\ raised[i] = "" =>
            response[i].statusCode = 200 /\ write_version[i] > 0

\* The log held 20 entries; the one invocation that ran failed to read it,
\* wrote the log back and returned 200: the log holds its entry alone.
C29_Witness ==
  \E i \in Inv :
    /\ Len(history.log0) = LogCap
    /\ log_read[i] = "error" /\ read_version[i] = 0
    /\ write_version[i] = 1 /\ log_version = 1
    /\ frame[i].pc = "returned" /\ response[i].statusCode = 200
    /\ s3_log.scenes = <<EntryOf(i)>>

\* The number of entries of a log for a scene.
EntriesOf(scenes, id) == Cardinality({k \in 1..Len(scenes) : scenes[k].scene_id = id})

\* The number of puts of the statistics record the running invocation made.
StatsPuts == Len(SelectSeq(calls[1], LAMBDA c : c = <<"put_object", "stats">>))

\* C30: the log is not deduplicated by scene. From an empty log, after k
\* invocations, one after the other, that selected the same scene and
\* succeeded, the log holds min(k, 20) entries, all of that scene, while the
\* statistics record of the scene, put again by every invocation under the
\* same key, is there once. A successful invocation is one whose read of
\* the log returned the stored log or found it absent.
C30_NoDeduplication ==
  ~history.read_failed =>
    LET k == history.completed
        written == IF frame[1].pc = "return" THEN k + 1 ELSE k
        entries == IF written <= LogCap THEN written ELSE LogCap
    IN /\ log_version = written
       /\ Len(s3_log.scenes) = entries
       /\ EntriesOf(s3_log.scenes, S1.id) = entries
       /\ (written > 0) =>
            /\ DOMAIN s3_stats = {StatsKey(Results(S1))}
            /\ s3_stats[StatsKey(Results(S1))] = Results(S1)
       /\ (k > 0 /\ StatsPuts > 0 /\ frame[1].pc \in {"get_log", "put_log", "return"}) =>
            Cardinality(DOMAIN s3_stats) = 1

\* 21 invocations of the same scene have succeeded: the log holds 20
\* entries of the scene, the statistics record is there once.
C30_Witness ==
  /\ ~history.read_failed
  /\ history.completed = LogCap + 1 /\ history.started = LogCap + 1
  /\ Len(s3_log.scenes) = LogCap
  /\ EntriesOf(s3_log.scenes, S1.id) = LogCap
  /\ Cardinality(DOMAIN s3_stats) = 1

====
